---- MODULE Spec2Model ----
(***************************************************************************)
(* A model of pfsspy.interpolator.RegularGridInterpolator: construction    *)
(* (__init__), evaluation (__call__, _find_indices, _evaluate_linear) and  *)
(* the caller's arrays the instance may share.                             *)
(*                                                                         *)
(* Numbers.  Array elements are modelled as exact rationals <<n, d>> with  *)
(* d > 0 in lowest terms; NaN is <<0, 0>>.  A division by zero gives NaN   *)
(* (numpy gives nan or +-inf there; on the only path that divides by zero, *)
(* an axis of length 1, every +-inf weight meets its opposite on the same  *)
(* value and the sum is nan, so the two are not told apart).  Rounding of  *)
(* binary floating point is not modelled.                                  *)
(*                                                                         *)
(* Indices are the code's 0-based indices; At(s, i) reads s[i] as Python   *)
(* does, a negative i counting from the end.                               *)
(***************************************************************************)
EXTENDS Integers, Sequences, FiniteSets, TLC

\* ------------------------------------------------------------ arithmetic

Abs(n) == IF n < 0 THEN -n ELSE n

RECURSIVE GCD(_, _)
GCD(a, b) == IF b = 0 THEN a ELSE GCD(b, a % b)

NaN == <<0, 0>>

IsNaN(a) == a[2] = 0

\* The rational n/d in lowest terms with a positive denominator; NaN if d = 0.
Norm(n, d) ==
    IF d = 0 THEN NaN
    ELSE LET g == GCD(Abs(n), Abs(d))
             s == IF d < 0 THEN -1 ELSE 1
         IN  <<(s * n) \div g, (s * d) \div g>>

R(n) == <<n, 1>>

RAdd(a, b) == IF IsNaN(a) \/ IsNaN(b) THEN NaN
              ELSE Norm(a[1] * b[2] + b[1] * a[2], a[2] * b[2])

RSub(a, b) == IF IsNaN(a) \/ IsNaN(b) THEN NaN
              ELSE Norm(a[1] * b[2] - b[1] * a[2], a[2] * b[2])

RMul(a, b) == IF IsNaN(a) \/ IsNaN(b) THEN NaN
              ELSE Norm(a[1] * b[1], a[2] * b[2])

RDiv(a, b) == IF IsNaN(a) \/ IsNaN(b) THEN NaN
              ELSE Norm(a[1] * b[2], a[2] * b[1])

\* Comparisons; any comparison with NaN is false, as in IEEE 754.
RLt(a, b) == ~IsNaN(a) /\ ~IsNaN(b) /\ a[1] * b[2] < b[1] * a[2]

RLe(a, b) == ~IsNaN(a) /\ ~IsNaN(b) /\ a[1] * b[2] <= b[1] * a[2]

\* ------------------------------------------------------------ arrays

\* s[i] with Python's indexing: 0-based, a negative index counts from the end.
At(s, i) == s[(IF i < 0 THEN i + Len(s) ELSE i) + 1]

\* The index tuples (0-based) of an array of the given shape, in row-major
\* order.
RECURSIVE AllIdx(_)
AllIdx(shape) ==
    IF Len(shape) = 0 THEN << <<>> >>
    ELSE LET rest == AllIdx(Tail(shape))
             n    == Len(rest)
         IN  [k \in 1..(shape[1] * n) |->
                 <<(k - 1) \div n>> \o rest[((k - 1) % n) + 1]]

\* An index tuple with Python's wrap of negative entries against the shape.
WrapIdx(shape, idx) ==
    [k \in 1..Len(idx) |-> IF idx[k] < 0 THEN idx[k] + shape[k] ELSE idx[k]]

\* numpy.searchsorted(grid, x) with the default side='left': a binary search
\* for the first position whose element is not less than x.
RECURSIVE BinSearchLeft(_, _, _, _)
BinSearchLeft(grid, x, lo, hi) ==
    IF lo >= hi THEN lo
    ELSE LET mid == lo + ((hi - lo) \div 2)
         IN  IF RLt(R(At(grid, mid)), x)
             THEN BinSearchLeft(grid, x, mid + 1, hi)
             ELSE BinSearchLeft(grid, x, lo, mid)

\* searchsorted with side='right': the first position whose element is
\* greater than x.
searchsorted_right(grid, x) ==
    Cardinality({k \in 1..Len(grid) : RLe(R(grid[k]), x)})

searchsorted(grid, x) == BinSearchLeft(grid, x, 0, Len(grid))

\* ------------------------------------------------------------ _find_indices

\* The cell index without the "- 1" of line 179.
CellIndex_nominus(grid, x) ==
    LET i0 == searchsorted(grid, x)
        i1 == IF i0 < 0 THEN 0 ELSE i0
    IN  IF i1 > Len(grid) - 2 THEN Len(grid) - 2 ELSE i1

\* Lines 179-181 for one coordinate: the insertion point minus one, then the
\* two clamps, in the code's order.
CellIndex(grid, x) ==
    LET i0 == searchsorted(grid, x) - 1
        i1 == IF i0 < 0 THEN 0 ELSE i0
    IN  IF i1 > Len(grid) - 2 THEN Len(grid) - 2 ELSE i1

\* The normalized distance held within [0,1]: no extrapolation.
NormDistance_clamped(grid, x, i) ==
    LET t == RDiv(RSub(x, R(At(grid, i))),
                  RSub(R(At(grid, i + 1)), R(At(grid, i))))
    IN  IF RLt(t, R(0)) THEN R(0) ELSE IF RLt(R(1), t) THEN R(1) ELSE t

\* Lines 183-184 for one coordinate.
NormDistance(grid, x, i) ==
    RDiv(RSub(x, R(At(grid, i))), RSub(R(At(grid, i + 1)), R(At(grid, i))))

\* Lines 186-187 for one coordinate: what one axis adds to out_of_bounds.
AxisOutOfBounds(grid, x) ==
    RLt(x, R(At(grid, 0))) \/ RLt(R(At(grid, -1)), x)

\* out_of_bounds after the loop over the axes (+= on booleans is "or"); the
\* flags stay False when bounds_error is set (line 185).
OutOfBoundsFlags(grid, pts, bounds_error) ==
    [p \in 1..Len(pts) |->
        /\ ~bounds_error
        /\ \E a \in 1..Len(grid) : AxisOutOfBounds(grid[a], pts[p][a])]

\* _find_indices(xi.T): grid is the tuple of axis data, pts the batch of
\* points (one row of xi each).  indices and norm_distances are per axis,
\* then per point.
find_indices(grid, pts, bounds_error) ==
    LET indices == [a \in 1..Len(grid) |->
                       [p \in 1..Len(pts) |-> CellIndex(grid[a], pts[p][a])]]
    IN  [indices        |-> indices,
         norm_distances |-> [a \in 1..Len(grid) |->
                                [p \in 1..Len(pts) |->
                                    NormDistance(grid[a], pts[p][a],
                                                 indices[a][p])]],
         out_of_bounds  |-> OutOfBoundsFlags(grid, pts, bounds_error)]

\* ------------------------------------------------------------ _evaluate_linear

\* Line 161: itertools.product of [i, i + 1] per axis, as the offsets 0 / 1
\* added to the low index, first axis slowest.
Corners(n) == AllIdx([a \in 1..n |-> 2])

RECURSIVE CornerWeight(_, _, _)
\* The weight with the two branches of the np.where of line 166 exchanged.
CornerWeight_swapped(corner, yis, a) ==
    IF a > Len(corner) THEN R(1)
    ELSE RMul(IF corner[a] = 0 THEN yis[a] ELSE RSub(R(1), yis[a]),
              CornerWeight(corner, yis, a + 1))

\* Lines 164-166: the weight of one corner for one point.
CornerWeight(corner, yis, a) ==
    IF a > Len(corner) THEN R(1)
    ELSE RMul(IF corner[a] = 0 THEN RSub(R(1), yis[a]) ELSE yis[a],
              CornerWeight(corner, yis, a + 1))

\* Lines 162-167 for one point and one trailing element: the sum, corner by
\* corner, of value times weight.  is and yis are the point's low index and
\* normalized distance on each axis.
RECURSIVE BlendFrom(_, _, _, _, _)
BlendFrom(vals, is, yis, trail, k) ==
    LET cs == Corners(Len(is))
    IN  IF k > Len(cs) THEN R(0)
        ELSE LET edge == [a \in 1..Len(is) |-> is[a] + cs[k][a]]
                 v    == vals.data[WrapIdx(vals.shape, edge \o trail)]
             IN  RAdd(RMul(R(v), CornerWeight(cs[k], yis, 1)),
                      BlendFrom(vals, is, yis, trail, k + 1))

\* The shape of the trailing (non-interpolated) dimensions of the values.
TrailShape(vals, ndim) == SubSeq(vals.shape, ndim + 1, Len(vals.shape))

\* _evaluate_linear: per point, the blended value of every trailing element
\* (row-major).
evaluate_linear(vals, fi, npts) ==
    LET ndim   == Len(fi.indices)
        trails == AllIdx(TrailShape(vals, ndim))
    IN  [p \in 1..npts |->
            [c \in 1..Len(trails) |->
                BlendFrom(vals,
                          [a \in 1..ndim |-> fi.indices[a][p]],
                          [a \in 1..ndim |-> fi.norm_distances[a][p]],
                          trails[c], 1)]]

\* ------------------------------------------------------------ __call__

\* fill_value=None; any other fill value is [kind, val] with val a number.
None == [kind |-> "None", val |-> NaN]

NoResult == [kind |-> "none", dim |-> -1, searched |-> FALSE, result |-> <<>>,
             indices |-> <<>>, norm_distances |-> <<>>, out_of_bounds |-> <<>>]

\* The bounds check with < for <=: the first and last node are refused.
BoundsViolations_open(grid, pts) ==
    {i \in 0..(Len(grid) - 1) :
        ~(/\ \A p \in 1..Len(pts) : RLt(R(At(grid[i + 1], 0)), pts[p][i + 1])
          /\ \A p \in 1..Len(pts) : RLt(pts[p][i + 1], R(At(grid[i + 1], -1))))}

\* Lines 139-144: the dimensions (0-based) on which some coordinate of the
\* batch is not within [grid[i][0], grid[i][-1]].  The loop raises for the
\* lowest of them.
BoundsViolations(grid, pts) ==
    {i \in 0..(Len(grid) - 1) :
        ~(/\ \A p \in 1..Len(pts) : RLe(R(At(grid[i + 1], 0)), pts[p][i + 1])
          /\ \A p \in 1..Len(pts) : RLe(pts[p][i + 1], R(At(grid[i + 1], -1))))}

Min(S) == CHOOSE m \in S : \A k \in S : m <= k

\* The fill applied to the whole batch as soon as one point is flagged.
ApplyFill_batch(result, oob, bounds_error, fill_value) ==
    IF ~bounds_error /\ fill_value /= None
    THEN [p \in 1..Len(result) |->
             IF \E q \in 1..Len(oob) : oob[q]
             THEN [c \in 1..Len(result[p]) |-> fill_value.val]
             ELSE result[p]]
    ELSE result

\* Lines 150-151: result[out_of_bounds] = fill_value, every trailing element
\* of a flagged point.
ApplyFill(result, oob, bounds_error, fill_value) ==
    IF ~bounds_error /\ fill_value /= None
    THEN [p \in 1..Len(result) |->
             IF oob[p] THEN [c \in 1..Len(result[p]) |-> fill_value.val]
             ELSE result[p]]
    ELSE result

\* The grid and the values the instance reads (the arrays behind self.grid
\* and self.values).
GridOf(obj) == [a \in 1..Len(obj.grid) |-> obj.grid[a].data]

\* __call__(xi) on the instance obj; q is the query array, q.dim its last
\* dimension and q.pts its rows after the reshape of line 137.  The outcome
\* carries the locals of the call (indices, norm_distances, out_of_bounds)
\* and whether _find_indices was reached.
Call(obj, q) ==
    LET grid == GridOf(obj)
    IN  IF q.dim /= Len(grid)
        THEN [NoResult EXCEPT !.kind = "QueryDimensionMismatch"]
        ELSE IF obj.bounds_error /\ BoundsViolations(grid, q.pts) /= {}
        THEN [NoResult EXCEPT !.kind = "OutOfDomain",
                              !.dim = Min(BoundsViolations(grid, q.pts))]
        ELSE LET fi  == find_indices(grid, q.pts, obj.bounds_error)
                 res == evaluate_linear(obj.values, fi, Len(q.pts))
             IN  [kind           |-> "result",
                  dim            |-> -1,
                  searched       |-> TRUE,
                  result         |-> ApplyFill(res, fi.out_of_bounds,
                                               obj.bounds_error, obj.fill_value),
                  indices        |-> fi.indices,
                  norm_distances |-> fi.norm_distances,
                  out_of_bounds  |-> fi.out_of_bounds]

\* ------------------------------------------------------------ __init__

\* numpy's kinds, ordered as can_cast(..., casting='same_kind') orders them.
KindRank(k) == CASE k = "bool" -> 0 [] k = "int" -> 1 [] k = "float" -> 2
                 [] k = "complex" -> 3

\* np.issubdtype(dtype, np.inexact)
IsInexact(k) == k \in {"float", "complex"}

\* Lines 95-97: the element kind of values after the coercion.
CoercedKind(k) == IF IsInexact(k) THEN k ELSE "float"

\* Lines 100-104: np.can_cast(fill dtype, values dtype, casting='same_kind').
CanCastSameKind(from, to) == KindRank(from) <= KindRank(to)

FillCompatible(fill_value, vkind) ==
    fill_value = None \/ CanCastSameKind(fill_value.kind, vkind)

\* An axis argument p is [ndim, rows, isArr]: rows holds the rows of a
\* two-dimensional p and, as its only row, the elements of a one-dimensional
\* one.  np.all(np.diff(p) > 0.): the differences run along the last
\* dimension, that is within each row.
RowIncreasing(row) == \A k \in 1..(Len(row) - 1) : row[k + 1] - row[k] > 0

\* The test with >= for >: equal neighbours pass.
RowIncreasing_weak(row) == \A k \in 1..(Len(row) - 1) : row[k + 1] - row[k] >= 0

StrictlyAscending_weak(p) ==
    \A r \in 1..Len(p.rows) : RowIncreasing_weak(p.rows[r])

StrictlyAscending(p) == \A r \in 1..Len(p.rows) : RowIncreasing(p.rows[r])

\* len(p): the length of the first dimension.
AxisLen(p) == IF p.ndim = 1 THEN Len(p.rows[1]) ELSE Len(p.rows)

\* The checks of an axis with the dimension check first.
AxisCheck_ndimfirst(p, i, shape) ==
    IF p.ndim /= 1 THEN "MalformedAxis"
    ELSE IF ~StrictlyAscending(p) THEN "NonMonotonicAxis"
    ELSE IF shape[i + 1] /= AxisLen(p) THEN "ShapeMismatch"
    ELSE "ok"

\* Lines 109-117 for axis i (0-based): the first failing check, or "ok".
AxisCheck(p, i, shape) ==
    IF ~StrictlyAscending(p) THEN "NonMonotonicAxis"
    ELSE IF p.ndim /= 1 THEN "MalformedAxis"
    ELSE IF shape[i + 1] /= AxisLen(p) THEN "ShapeMismatch"
    ELSE "ok"

\* Lines 108-117: the loop over the axes, stopping at the first error.
RECURSIVE AxesCheck(_, _, _)
AxesCheck(points, shape, i) ==
    IF i >= Len(points) THEN [kind |-> "ok", dim |-> -1]
    ELSE LET c == AxisCheck(points[i + 1], i, shape)
         IN  IF c /= "ok" THEN [kind |-> c, dim |-> i]
             ELSE AxesCheck(points, shape, i + 1)

\* Lines 91-117: the error __init__ raises on these arguments, or "ok".
InitCheck(a) ==
    IF Len(a.points) > Len(a.values.shape)
    THEN [kind |-> "DimensionMismatch", dim |-> -1]
    ELSE IF ~FillCompatible(a.fill_value, CoercedKind(a.values.dtype))
    THEN [kind |-> "IncompatibleFillValue", dim |-> -1]
    ELSE AxesCheck(a.points, a.values.shape, 0)

\* Line 118: np.asarray(p) is p itself when p is an array and a new array
\* when p is a list; shared says the instance's array is the caller's object.
StoredAxis(p) == [shared |-> p.isArr, data |-> p.rows[1]]

\* Lines 87-89, 95-97, 119: values is converted (a new array) when it is
\* not an array or when its elements are not inexact, and stored as it is
\* otherwise.
StoredValues(v) ==
    [shared |-> v.isArr /\ IsInexact(v.dtype), dtype |-> CoercedKind(v.dtype),
     shape |-> v.shape, data |-> v.data]

\* The instance __init__ builds when no check fails.
NewInstance(a) ==
    [bounds_error |-> a.bounds_error,
     fill_value   |-> a.fill_value,
     grid         |-> [i \in 1..Len(a.points) |-> StoredAxis(a.points[i])],
     values       |-> StoredValues(a.values)]

\* ------------------------------------------------------------ inputs

\* The largest number of points in one query batch.
MaxBatch == 2

Range(f) == {f[k] : k \in DOMAIN f}

\* Axis arguments: one-dimensional arrays or lists, and two-dimensional ones.
Axis(data, isArr) == [ndim |-> 1, rows |-> <<data>>, isArr |-> isArr]

Axis2D(rows, isArr) == [ndim |-> 2, rows |-> rows, isArr |-> isArr]

\* Value arrays are filled from one of two tables: 10 * (sum of the indices)
\* (in one dimension 0, 10, 20, ...) and a table that is neither linear nor
\* monotonic.
Gen(g, idx) ==
    LET I(k) == IF k <= Len(idx) THEN idx[k] ELSE 0
    IN  IF g = 1 THEN 10 * (I(1) + I(2) + I(3))
        ELSE 3 * I(1) * I(1) - 7 * I(2) + 5 * I(1) * I(2) + 11 * I(3) - 2

Values(dtype, shape, g, isArr) ==
    [dtype |-> dtype, shape |-> shape, isArr |-> isArr,
     data  |-> [idx \in Range(AllIdx(shape)) |-> Gen(g, idx)]]

Fill(kind, val) == [kind |-> kind, val |-> val]

Args(points, values, bounds_error, fill_value) ==
    [points |-> points, values |-> values, bounds_error |-> bounds_error,
     fill_value |-> fill_value]

\* The shape that fits the axes, followed by the trailing dimensions.
FitShape(points, trail) == [i \in 1..Len(points) |-> AxisLen(points[i])] \o trail

\* Axes that pass the checks: even and uneven spacing, two nodes, one node.
GoodAxes == {<<0, 1, 2>>, <<0, 1, 3>>, <<0, 1>>, <<1>>}

GoodGrids ==
    {<<Axis(d, TRUE)>> : d \in GoodAxes}
    \cup {<<Axis(<<0, 1>>, TRUE), Axis(<<0, 1>>, TRUE)>>,
          <<Axis(<<0, 1, 3>>, TRUE), Axis(<<0, 1>>, TRUE)>>}

\* (bounds_error, fill_value): the error policy with the default fill value,
\* extrapolation, and two constant fills.
Policies ==
    {<<TRUE, Fill("float", NaN)>>, <<FALSE, None>>, <<FALSE, Fill("int", R(-1))>>,
     <<FALSE, Fill("float", <<5, 2>>)>>}

\* Arguments for the evaluation properties: grids that construct, with
\* scalar and vector values, under every bounds policy, and two that fail.
EvalArgs ==
    {Args(g, Values(v[1], FitShape(g, v[2]), v[3], TRUE), pol[1], pol[2]) :
        g \in GoodGrids,
        v \in {<<"float", <<>>, 1>>, <<"int", <<>>, 2>>, <<"float", <<2>>, 2>>},
        pol \in Policies}
    \cup {Args(<<Axis(<<3, 1, 2>>, TRUE)>>, Values("float", <<3>>, 1, TRUE),
               TRUE, None),
          Args(<<Axis(<<0, 1, 2>>, TRUE)>>, Values("float", <<3>>, 1, TRUE),
               FALSE, Fill("complex", R(1)))}

\* Query coordinates: below, on, between and above the nodes of the axes.
Coords == {<<-1, 1>>, <<0, 1>>, <<1, 2>>, <<1, 1>>, <<5, 4>>, <<2, 1>>,
           <<3, 1>>, <<4, 1>>}

Points1 == {<<c>> : c \in Coords}

\* Two-dimensional query points: nodes, points inside a cell and on an edge,
\* points outside on the first axis only, on the second only, and on both.
Points2 ==
    {<<R(0), R(0)>>, <<R(1), R(1)>>, <<R(3), R(1)>>, <<R(1), R(0)>>,
     <<<<1, 2>>, <<1, 2>>>>, <<R(2), <<1, 2>>>>, <<<<5, 4>>, <<1, 4>>>>,
     <<R(0), <<1, 2>>>>, <<R(-1), <<1, 2>>>>, <<<<1, 2>>, R(2)>>,
     <<R(4), R(-1)>>, <<R(4), <<1, 2>>>>}

Batches(S) == UNION {[1..k -> S] : k \in 0..MaxBatch}

\* Query arrays of shape (k, 1) and (k, 2), k <= MaxBatch.
Queries ==
    {[dim |-> 1, pts |-> b] : b \in Batches(Points1)}
    \cup {[dim |-> 2, pts |-> b] : b \in Batches(Points2)}

\* ------------------------------------------------------------ state

VARIABLES
    pc,     \* "new": not constructed; "ready": constructed; "failed"
    args,   \* the caller's arguments to the constructor (the caller's objects)
    self,   \* the instance: bounds_error, fill_value, grid, values
    built,  \* the instance as it was when __init__ returned
    err,    \* the outcome of __init__: kind "none" before, "ok" or an error
    xi,     \* the query of the last call
    out,    \* the outcome of the last call
    ref     \* an earlier call kept for comparison: its query and outcome

vars == <<pc, args, self, built, err, xi, out, ref>>

NoArgs == Args(<<>>, Values("float", <<>>, 1, TRUE), TRUE, None)

NoSelf == [bounds_error |-> TRUE, fill_value |-> None, grid |-> <<>>,
           values |-> StoredValues(NoArgs.values)]

NoQuery == [dim |-> 0, pts |-> <<>>]

NoRef == [set |-> FALSE, later |-> FALSE, xi |-> NoQuery, out |-> NoResult]

Init ==
    /\ pc = "new"
    /\ args = NoArgs
    /\ self = NoSelf
    /\ built = NoSelf
    /\ err = [kind |-> "none", dim |-> -1]
    /\ xi = NoQuery
    /\ out = NoResult
    /\ ref = NoRef

\* RegularGridInterpolator(points, values, bounds_error, fill_value)
Construct(a) ==
    /\ pc = "new"
    /\ args' = a
    /\ err' = InitCheck(a)
    /\ pc' = IF InitCheck(a).kind = "ok" THEN "ready" ELSE "failed"
    /\ self' = IF InitCheck(a).kind = "ok" THEN NewInstance(a) ELSE NoSelf
    /\ built' = self'
    /\ UNCHANGED <<xi, out, ref>>

\* What __call__ leaves of the instance: it assigns no attribute and writes
\* only into arrays it has created (i, result).
\* A call that, having filled, clears the fill value of the instance.
SelfAfterCall_inplace(obj, q) ==
    IF q.dim = Len(obj.grid) /\ ~obj.bounds_error /\ obj.fill_value /= None
    THEN [obj EXCEPT !.fill_value = None]
    ELSE obj

SelfAfterCall(obj, q) == obj

\* interpolator(xi): the caller, holding no result, calls with the query q
\* and gets the outcome (a result or an error).
Evaluate(q) ==
    /\ pc = "ready"
    /\ out.kind = "none"
    /\ xi' = q
    /\ out' = Call(self, q)
    /\ self' = SelfAfterCall(self, q)
    /\ ref' = IF ref.set /\ q /= ref.xi THEN [ref EXCEPT !.later = TRUE] ELSE ref
    /\ UNCHANGED <<pc, args, built, err>>

\* The caller drops the outcome of its last call and is free to call again.
Discard ==
    /\ out.kind /= "none"
    /\ xi' = NoQuery
    /\ out' = NoResult
    /\ UNCHANGED <<pc, args, self, built, err, ref>>

EvalNext ==
    \/ \E a \in EvalArgs : Construct(a)
    \/ \E q \in Queries : Evaluate(q)
    \/ Discard

\* Construction and evaluation on grids that construct, under every policy.
Spec == Init /\ [][EvalNext]_vars

\* ------------------------------------------------------------ construction only

\* Axis candidates: the axes above, a longer one, one that decreases, one
\* with equal neighbours, and two two-dimensional ones.
AxisCands ==
    {Axis(d, TRUE) : d \in GoodAxes \cup {<<0, 1, 2, 4>>, <<3, 1, 2>>, <<0, 0, 1>>}}
    \cup {Axis2D(<<<<0, 1>>, <<2, 3>>>>, TRUE), Axis2D(<<<<1, 0>>>>, TRUE)}

Shapes == {<<>>, <<1>>, <<2>>, <<3>>, <<4>>, <<2, 2>>, <<3, 2>>, <<3, 4>>,
           <<3, 5>>, <<2, 3>>, <<3, 2, 2>>}

AxisTuples == {<<a>> : a \in AxisCands} \cup (AxisCands \X AxisCands)

Kinds == {"int", "float", "complex"}

Fills == {None, Fill("int", R(-1)), Fill("float", NaN), Fill("complex", R(1))}

\* Arguments for the construction properties: every combination of one or
\* two axis candidates, a shape, an element kind and a bounds policy.
ConstructNext ==
    \E pts \in AxisTuples, sh \in Shapes, k \in Kinds, be \in BOOLEAN,
       fv \in Fills :
        Construct(Args(pts, Values(k, sh, 1, TRUE), be, fv))

SpecConstruct == Init /\ [][ConstructNext]_vars

\* ------------------------------------------------------------ repeated calls

HistArgs ==
    {Args(g, Values("float", FitShape(g, <<>>), 2, TRUE), pol[1], pol[2]) :
        g \in {<<Axis(<<0, 1, 3>>, TRUE)>>,
               <<Axis(<<0, 1>>, TRUE), Axis(<<0, 1>>, TRUE)>>},
        pol \in {<<TRUE, Fill("float", NaN)>>, <<FALSE, None>>,
                 <<FALSE, Fill("int", R(-1))>>}}

\* The calls the caller may keep for a later comparison.
Probes ==
    {[dim |-> 1, pts |-> <<<<<<1, 2>>>>>>],
     [dim |-> 1, pts |-> <<<<R(4)>>, <<R(1)>>>>],
     [dim |-> 2, pts |-> <<<<R(-1), <<1, 2>>>>>>],
     [dim |-> 2, pts |-> <<<<<<5, 4>>, <<1, 4>>>>, <<R(1), R(1)>>>>]}

\* The caller keeps the query and the outcome of its last call.
Keep ==
    /\ out.kind /= "none"
    /\ xi \in Probes
    /\ ref' = [set |-> TRUE, later |-> FALSE, xi |-> xi, out |-> out]
    /\ xi' = NoQuery
    /\ out' = NoResult
    /\ UNCHANGED <<pc, args, self, built, err>>

HistNext ==
    \/ \E a \in HistArgs : Construct(a)
    \/ \E q \in Queries : Evaluate(q)
    \/ Discard
    \/ Keep

SpecHist == Init /\ [][HistNext]_vars

\* ------------------------------------------------------------ the caller's arrays

CallerArgs ==
    {Args(<<Axis(<<0, 1, 3>>, arr[1])>>, Values(k, <<3>>, 2, arr[2]),
          FALSE, None) :
        arr \in BOOLEAN \X BOOLEAN, k \in {"int", "float"}}

\* The caller writes v into element k of the axis it passed as points[i],
\* keeping the axis ascending (searchsorted is specified on sorted arrays
\* only).  The instance's array changes with it when it is the same object.
ModifyAxis(i, k, v) ==
    /\ pc = "ready"
    /\ out.kind = "none"
    /\ RowIncreasing([args.points[i].rows[1] EXCEPT ![k] = v])
    /\ args' = [args EXCEPT !.points[i].rows[1][k] = v]
    /\ self' = IF self.grid[i].shared
               THEN [self EXCEPT !.grid[i].data[k] = v] ELSE self
    /\ UNCHANGED <<pc, built, err, xi, out, ref>>

\* The caller writes v into element idx of the array it passed as values.
ModifyValues(idx, v) ==
    /\ pc = "ready"
    /\ out.kind = "none"
    /\ args' = [args EXCEPT !.values.data[idx] = v]
    /\ self' = IF self.values.shared
               THEN [self EXCEPT !.values.data[idx] = v] ELSE self
    /\ UNCHANGED <<pc, built, err, xi, out, ref>>

CallerNext ==
    \/ \E a \in CallerArgs : Construct(a)
    \/ \E q \in Probes : Evaluate(q)
    \/ Discard
    \/ \E i \in 1..Len(args.points), k \in 1..3, v \in {2, 5} :
           k <= AxisLen(args.points[i]) /\ ModifyAxis(i, k, v)
    \/ \E idx \in DOMAIN args.values.data, v \in {7, 40} : ModifyValues(idx, v)

SpecCaller == Init /\ [][CallerNext]_vars

\* ------------------------------------------------------------ properties

\* The grid the instance reads, and what the properties say of it.
G == GridOf(self)

N == Len(G)

\* Every axis has at least two nodes.
Regular == \A a \in 1..N : Len(G[a]) >= 2

\* The last call returned a result.
Returned == pc = "ready" /\ out.kind = "result"

\* The trailing index tuples of the stored values, row-major.
Trails == AllIdx(TrailShape(self.values, N))

\* Coordinate a of point p of the last query.
X(p, a) == xi.pts[p][a]

\* Point p lies below the first or above the last node of some axis.
Outside(p) ==
    \E a \in 1..N : RLt(X(p, a), R(At(G[a], 0))) \/ RLt(R(At(G[a], -1)), X(p, a))

\* The clamped cell of x on an axis, stated without a search: the last cell
\* whose low node is below x, and the first cell if there is none.
RefCell(axis, x) ==
    LET S == {k \in 0..(Len(axis) - 2) : RLt(R(At(axis, k)), x)}
    IN  IF S = {} THEN 0 ELSE CHOOSE m \in S : \A k \in S : k <= m

RefT(axis, x, i) ==
    RDiv(RSub(x, R(At(axis, i))), RSub(R(At(axis, i + 1)), R(At(axis, i))))

\* The multilinear blend of the clamped cell of pt, axis by axis: along axis
\* a, (1 - t) times the blend with the low node plus t times the blend with
\* the high node.  prefix holds the node indices chosen so far.
RECURSIVE RefBlend(_, _, _, _, _)
RefBlend(grid, vals, pt, trail, prefix) ==
    LET a == Len(prefix) + 1
    IN  IF a > Len(grid) THEN R(vals.data[prefix \o trail])
        ELSE LET i == RefCell(grid[a], pt[a])
                 t == RefT(grid[a], pt[a], i)
             IN  RAdd(RMul(RSub(R(1), t),
                           RefBlend(grid, vals, pt, trail, prefix \o <<i>>)),
                      RMul(t, RefBlend(grid, vals, pt, trail, prefix \o <<i + 1>>)))

RECURSIVE RSum(_)
RSum(seq) == IF Len(seq) = 0 THEN R(0) ELSE RAdd(Head(seq), RSum(Tail(seq)))

\* C1: on a grid whose axes all have at least two nodes, under every bounds
\* policy, a query point whose coordinates are the nodes (k_1, ..., k_N) of
\* the axes gets exactly values[k_1, ..., k_N], for every trailing element,
\* first and last nodes included.
C1_NodesExact ==
    (Returned /\ Regular) =>
        \A p \in 1..Len(xi.pts) :
            \A ks \in Range(AllIdx([a \in 1..N |-> Len(G[a])])) :
                (\A a \in 1..N : R(At(G[a], ks[a])) = X(p, a)) =>
                    \A c \in 1..Len(Trails) :
                        out.result[p][c] = R(self.values.data[ks \o Trails[c]])

\* A batch on the grid ([0,1,3], [0,1]) that holds the node (last, last) and
\* the node (interior, first), each returned with its stored value.
C1_Witness ==
    /\ Returned
    /\ G = <<<<0, 1, 3>>, <<0, 1>>>>
    /\ xi.pts = <<<<R(3), R(1)>>, <<R(1), R(0)>>>>
    /\ \A c \in 1..Len(Trails) :
           /\ out.result[1][c] = R(self.values.data[<<2, 1>> \o Trails[c]])
           /\ out.result[2][c] = R(self.values.data[<<1, 0>> \o Trails[c]])

\* The corner values of the cell chosen for point p, for trailing element c.
CornerValues(p, c) ==
    {R(self.values.data[[a \in 1..N |-> out.indices[a][p] + cn[a]] \o Trails[c]]) :
        cn \in Range(Corners(N))}

\* The weights the corners of point p get.
Weights(p) ==
    [k \in 1..Len(Corners(N)) |->
        CornerWeight(Corners(N)[k], [a \in 1..N |-> out.norm_distances[a][p]], 1)]

StrictlyInside(p) ==
    \A a \in 1..N : RLt(R(At(G[a], 0)), X(p, a)) /\ RLt(X(p, a), R(At(G[a], -1)))

C3_FillConstant ==
    (pc = "ready" /\ out.kind /= "none" /\ ~self.bounds_error
        /\ self.fill_value /= None /\ xi.dim = N) =>
        /\ out.kind = "result"
        /\ Len(out.result) = Len(xi.pts)
        /\ \A p \in 1..Len(xi.pts) : \A c \in 1..Len(Trails) :
               IF Outside(p)
               THEN out.result[p][c] = self.fill_value.val
               ELSE Regular =>
                        out.result[p][c] =
                            RefBlend(G, self.values, xi.pts[p], Trails[c], <<>>)

\* A batch whose first point is outside on the first axis only and whose
\* second point is the last node of both axes: the first is filled, the
\* second is not.
C3_Witness ==
    /\ Returned
    /\ ~self.bounds_error
    /\ self.fill_value = Fill("int", R(-1))
    /\ G = <<<<0, 1>>, <<0, 1>>>>
    /\ xi.pts = <<<<R(-1), <<1, 2>>>>, <<R(1), R(1)>>>>
    /\ out.result[1][1] = R(-1)
    /\ out.result[2][1] = R(self.values.data[<<1, 1>> \o Trails[1]])
    /\ out.result[2][1] /= R(-1)

\* Some point of the batch lies outside the axis of dimension i (0-based).
OutsideOn(i) ==
    \E p \in 1..Len(xi.pts) :
        \/ RLt(X(p, i + 1), R(At(G[i + 1], 0)))
        \/ RLt(R(At(G[i + 1], -1)), X(p, i + 1))

\* C4: under ErrorOnOutOfBounds a call fails with OutOfDomain exactly when
\* some coordinate of some point is below the first or above the last node
\* of its axis; the error names a dimension where that happens, is raised
\* before the index search, and no result is returned; coordinates on the
\* first or last node do not raise.
C4_ErrorOnOutOfBounds ==
    (pc = "ready" /\ out.kind /= "none" /\ self.bounds_error /\ xi.dim = N) =>
        /\ out.kind = "OutOfDomain" <=> \E i \in 0..(N - 1) : OutsideOn(i)
        /\ out.kind = "OutOfDomain" =>
               /\ out.dim \in 0..(N - 1)
               /\ OutsideOn(out.dim)
               /\ ~out.searched
               /\ out.result = <<>>
               /\ out.indices = <<>>
        /\ out.kind /= "OutOfDomain" =>
               /\ out.kind = "result"
               /\ Len(out.result) = Len(xi.pts)

\* A batch whose first point is a node and whose second point is above the
\* second axis: the call fails naming dimension 1 and returns nothing.
C4_Witness ==
    /\ pc = "ready"
    /\ self.bounds_error
    /\ G = <<<<0, 1>>, <<0, 1>>>>
    /\ xi.pts = <<<<R(1), R(1)>>, <<<<1, 2>>, R(2)>>>>
    /\ out.kind = "OutOfDomain"
    /\ out.dim = 1
    /\ out.result = <<>>

\* What the index locator returned for coordinate a of point p.
Cell(p, a) == out.indices[a][p]

Dist(p, a) == out.norm_distances[a][p]

InRange(p, a) == RLe(R(At(G[a], 0)), X(p, a)) /\ RLe(X(p, a), R(At(G[a], -1)))

\* C8 as stated: the cell index is in [0, m-2]; for x within the axis the
\* cell is half-open on the right, axis[i] <= x < axis[i+1] (x = axis[-1]
\* in the last cell), with t = (x - axis[i]) / (axis[i+1] - axis[i]) in
\* [0,1]; an interior node axis[k] is in cell k with t = 0.
C8_Original ==
    Returned =>
        \A a \in 1..N : \A p \in 1..Len(xi.pts) :
            Len(G[a]) >= 2 =>
                /\ Cell(p, a) \in 0..(Len(G[a]) - 2)
                /\ InRange(p, a) =>
                       /\ IF X(p, a) = R(At(G[a], -1))
                          THEN Cell(p, a) = Len(G[a]) - 2
                          ELSE /\ RLe(R(At(G[a], Cell(p, a))), X(p, a))
                               /\ RLt(X(p, a), R(At(G[a], Cell(p, a) + 1)))
                       /\ Dist(p, a) = RefT(G[a], X(p, a), Cell(p, a))
                       /\ RLe(R(0), Dist(p, a)) /\ RLe(Dist(p, a), R(1))
                /\ \A k \in 1..(Len(G[a]) - 2) :
                       X(p, a) = R(At(G[a], k)) =>
                           Cell(p, a) = k /\ Dist(p, a) = R(0)

\* C8, amended: the cell index is in [0, m-2]; for x within the axis the
\* cell is half-open on the left, axis[i] < x <= axis[i+1] (x = axis[0] in
\* the first cell, with t = 0), with t = (x - axis[i]) / (axis[i+1] -
\* axis[i]) in [0,1]; an interior node axis[k] is in cell k - 1 with t = 1.
C8_Amended ==
    Returned =>
        \A a \in 1..N : \A p \in 1..Len(xi.pts) :
            Len(G[a]) >= 2 =>
                /\ Cell(p, a) \in 0..(Len(G[a]) - 2)
                /\ InRange(p, a) =>
                       /\ IF X(p, a) = R(At(G[a], 0))
                          THEN Cell(p, a) = 0 /\ Dist(p, a) = R(0)
                          ELSE /\ RLt(R(At(G[a], Cell(p, a))), X(p, a))
                               /\ RLe(X(p, a), R(At(G[a], Cell(p, a) + 1)))
                       /\ Dist(p, a) = RefT(G[a], X(p, a), Cell(p, a))
                       /\ RLe(R(0), Dist(p, a)) /\ RLe(Dist(p, a), R(1))
                /\ \A k \in 1..(Len(G[a]) - 2) :
                       X(p, a) = R(At(G[a], k)) =>
                           Cell(p, a) = k - 1 /\ Dist(p, a) = R(1)

\* The interior node 1 of [0,1,3], located in cell 0 at distance 1, in a
\* batch with a point above the axis, located in the last cell.
C8_Witness ==
    /\ Returned
    /\ G = <<<<0, 1, 3>>>>
    /\ xi.pts = <<<<R(1)>>, <<R(4)>>>>
    /\ Cell(1, 1) = 0 /\ Dist(1, 1) = R(1)
    /\ Cell(2, 1) = 1 /\ Dist(2, 1) = <<3, 2>>

\* The worked example: axis [0,1,2] with the values [0,10,20].
IsExample ==
    /\ G = <<<<0, 1, 2>>>>
    /\ self.values.shape = <<3>>
    /\ \A k \in 0..2 : self.values.data[<<k>>] = 10 * k

\* C9: under ExtrapolateLinear every point, in bounds or not, gets the
\* multilinear blend of its clamped cell, t being free to leave [0,1], and
\* nothing is overwritten; in one dimension that is values[i] + t *
\* (values[i+1] - values[i]); on the example grid Evaluate(0.5) = 5,
\* Evaluate(1.25) = 12.5, Evaluate(3) = 30 and Evaluate(-1) = -10.
C9_Extrapolate ==
    (pc = "ready" /\ out.kind /= "none" /\ ~self.bounds_error
        /\ self.fill_value = None /\ xi.dim = N) =>
        /\ out.kind = "result"
        /\ Len(out.result) = Len(xi.pts)
        /\ Regular =>
               \A p \in 1..Len(xi.pts) : \A c \in 1..Len(Trails) :
                   /\ out.result[p][c] =
                          RefBlend(G, self.values, xi.pts[p], Trails[c], <<>>)
                   /\ N = 1 =>
                          LET i  == RefCell(G[1], X(p, 1))
                              t  == RefT(G[1], X(p, 1), i)
                              lo == R(self.values.data[<<i>> \o Trails[c]])
                              hi == R(self.values.data[<<i + 1>> \o Trails[c]])
                          IN  out.result[p][c] = RAdd(lo, RMul(t, RSub(hi, lo)))
        /\ IsExample =>
               \A p \in 1..Len(xi.pts) :
                   /\ X(p, 1) = <<1, 2>> => out.result[p][1] = R(5)
                   /\ X(p, 1) = <<5, 4>> => out.result[p][1] = <<25, 2>>
                   /\ X(p, 1) = R(3) => out.result[p][1] = R(30)
                   /\ X(p, 1) = R(-1) => out.result[p][1] = R(-10)

\* The example grid queried above and below the axis in one batch.
C9_Witness ==
    /\ Returned
    /\ ~self.bounds_error
    /\ self.fill_value = None
    /\ IsExample
    /\ xi.pts = <<<<R(3)>>, <<R(-1)>>>>
    /\ out.result = <<<<R(30)>>, <<R(-10)>>>>

\* The constructor's arguments, as the construction properties read them.
Rank == Len(args.values.shape)

NAxes == Len(args.points)

\* Neighbours increase along the last dimension of axis argument i.
Increasing(i) ==
    \A r \in 1..Len(args.points[i].rows) :
        \A j \in 1..(Len(args.points[i].rows[r]) - 1) :
            args.points[i].rows[r][j] < args.points[i].rows[r][j + 1]

OneDimensional(i) == args.points[i].ndim = 1

LengthFits(i) ==
    IF OneDimensional(i) THEN Len(args.points[i].rows[1]) = args.values.shape[i]
    ELSE Len(args.points[i].rows) = args.values.shape[i]

\* The fill value can be cast to the element kind of the values, integer
\* values counting as floating point: only a complex fill value with values
\* that are not complex cannot.
FillFits ==
    \/ args.fill_value = None
    \/ args.fill_value.kind /= "complex"
    \/ args.values.dtype = "complex"

ErrorKinds == {"DimensionMismatch", "IncompatibleFillValue", "NonMonotonicAxis",
               "MalformedAxis", "ShapeMismatch"}

\* C5: the constructor returns an interpolator exactly when there are no more
\* axes than value dimensions, every axis is one-dimensional and strictly
\* increasing, every axis is as long as its value dimension, and a fill value
\* other than None can be cast to the element kind of the values.  Otherwise
\* it fails and produces no interpolator: [3,1,2] as an axis fails with
\* NonMonotonicAxis, axes of lengths (3,4) with values of shape (3,5) fail
\* with ShapeMismatch.
C5_ConstructIff ==
    pc /= "new" =>
        /\ pc = "ready" <=>
               /\ NAxes <= Rank
               /\ FillFits
               /\ \A i \in 1..NAxes :
                      OneDimensional(i) /\ Increasing(i) /\ LengthFits(i)
        /\ pc = "ready" =>
               /\ err.kind = "ok"
               /\ GridOf(self) = [i \in 1..NAxes |-> args.points[i].rows[1]]
               /\ self.values.data = args.values.data
        /\ pc = "failed" => err.kind \in ErrorKinds /\ self = NoSelf
        /\ (NAxes <= Rank /\ FillFits /\ args.points[1].rows = <<<<3, 1, 2>>>>) =>
               pc = "failed" /\ err.kind = "NonMonotonicAxis"
        /\ (/\ NAxes = 2 /\ args.values.shape = <<3, 5>> /\ FillFits
            /\ \A i \in 1..2 : OneDimensional(i) /\ Increasing(i)
            /\ Len(args.points[1].rows[1]) = 3
            /\ Len(args.points[2].rows[1]) = 4) =>
               pc = "failed" /\ err.kind = "ShapeMismatch"

\* Axes of lengths (3,4) with values of shape (3,5): no interpolator.
C5_Witness ==
    /\ pc = "failed"
    /\ self = NoSelf
    /\ NAxes = 2
    /\ args.points[1].rows = <<<<0, 1, 3>>>>
    /\ args.points[2].rows = <<<<0, 1, 2, 4>>>>
    /\ args.values.shape = <<3, 5>>
    /\ err = [kind |-> "ShapeMismatch", dim |-> 1]

\* Axis argument i fails one of the three checks made on an axis.
Defective(i) == ~Increasing(i) \/ ~OneDimensional(i) \/ ~LengthFits(i)

\* C10: with several conditions violated at once the error is that of the
\* first failing check: DimensionMismatch; then IncompatibleFillValue, under
\* every bounds policy; then, for the first axis that fails a check,
\* NonMonotonicAxis before MalformedAxis before ShapeMismatch.
C10_ErrorOrder ==
    pc /= "new" =>
        IF NAxes > Rank THEN err.kind = "DimensionMismatch"
        ELSE IF ~FillFits THEN err.kind = "IncompatibleFillValue"
        ELSE IF \A i \in 1..NAxes : ~Defective(i) THEN err.kind = "ok"
        ELSE LET i == CHOOSE k \in 1..NAxes :
                          Defective(k) /\ \A j \in 1..(k - 1) : ~Defective(j)
             IN  /\ err.dim = i - 1
                 /\ err.kind = IF ~Increasing(i) THEN "NonMonotonicAxis"
                               ELSE IF ~OneDimensional(i) THEN "MalformedAxis"
                               ELSE "ShapeMismatch"

\* A first axis of the wrong length before a second axis that is not
\* increasing, under bounds_error=True: ShapeMismatch on dimension 0.
C10_Witness ==
    /\ pc = "failed"
    /\ NAxes = 2
    /\ Rank = 2
    /\ args.bounds_error
    /\ Increasing(1) /\ OneDimensional(1) /\ ~LengthFits(1)
    /\ ~Increasing(2)
    /\ err = [kind |-> "ShapeMismatch", dim |-> 0]

C7_CopiesStored ==
    pc = "ready" =>
        /\ GridOf(self) = GridOf(built)
        /\ self.values.data = built.values.data
        /\ out.kind /= "none" => out = Call(built, xi)

====
